---------------------------- MODULE Spec2Model ----------------------------
(***************************************************************************)
(* A model of src/file_io.cc: the memory-mapped region reader              *)
(* (FastReadFile with its release callback UnmapCallback) and the buffer   *)
(* fingerprint (SimdChecksum).                                             *)
(*                                                                         *)
(* The reader is modelled together with the two things it talks to: the    *)
(* operating system (descriptor table, address space in pages, one file)   *)
(* and the host runtime (views with a finalizer that the host runs once a  *)
(* view has become unreachable).  Several callers run FastReadFile         *)
(* concurrently; they interleave at the OS calls.                          *)
(*                                                                         *)
(* int64_t / size_t are modelled as WordBits-bit two's complement words:   *)
(* the conversions between them are the code's, the width is scaled.       *)
(***************************************************************************)
EXTENDS Integers, Sequences, FiniteSets, TLC

\* ------------------------------------------------------------- bounds
WordBits == 7          \* width of the modelled int64_t / size_t
MaxFile  == 5          \* largest file size, in bytes
MaxArg   == 6          \* largest offset / length a caller passes
MaxPages == 3          \* pages of address space available to mmap
MaxCalls == 2          \* FastReadFile calls in one behaviour
MaxBuf   == 65         \* longest buffer given to SimdChecksum

Threads       == {1, 2}
Paths         == {"data", "missing"}
Granularities == {1, 2, 4}      \* values sysconf / GetSystemInfo may report
Platforms     == {"posix", "win32"}

Modulus == 2 ^ WordBits

\* (size_t)x, and the usual arithmetic conversion of an int64_t operand
ToUnsigned(x) == x % Modulus
\* (int64_t)x
ToSigned(x) == LET u == x % Modulus IN IF 2 * u >= Modulus THEN u - Modulus ELSE u

NULL       == 0
MAP_FAILED == -1

\* the byte the file holds at position i (distinct, never 0)
FileByte(at) == at + 1

Min(S) == CHOOSE x \in S : \A y \in S : x <= y
CeilDiv(a, b) == (a + b - 1) \div b

VARIABLES
  platform,     \* the build: "posix" or "win32"
  granularity,  \* what GetAllocationGranularity() returns in this process
  fileSize,     \* size of the file at path "data"
  pc,           \* pc[t]: where caller t is inside FastReadFile
  args,         \* args[t]: [path, offset, length] of t's current/last call
  loc,          \* loc[t]: FastReadFile's locals
  result,       \* result[t]: what the last call returned / threw
  oslog,        \* oslog[t]: the OS calls of t's current/last call, in order
  fds,          \* open file descriptors
  pages,        \* pages[p]: id of the mapping that holds page p, 0 if free
  maps,         \* every mapping ever created, by id
  heap,         \* live malloc blocks
  views,        \* every view the host ever created
  ncalls,       \* calls started so far
  fault,        \* fault[t]: an OS or host call of t's call failed for a reason
                \* outside the call (no descriptors, no address space, the host)
  vector,       \* the build has the 256-bit vector path (x86_64)
  bytes,        \* SimdChecksum: the buffer
  fp,           \* SimdChecksum: where the call is
  i,            \* SimdChecksum: index of the next byte
  acc,          \* SimdChecksum: the four 64-bit lanes of the accumulator
  hash,         \* SimdChecksum: the hash so far
  hex           \* SimdChecksum: what it returns

rdVars == <<platform, granularity, fileSize, pc, args, loc, result, oslog,
            fds, pages, maps, heap, views, ncalls, fault>>
fpVars == <<vector, bytes, fp, i, acc, hash, hex>>
vars == <<rdVars, fpVars>>

\* what no step of FastReadFile or of a release changes
envVars == <<platform, granularity, fileSize, fpVars>>

NoLoc == [fd |-> -1, aligned_offset |-> 0, padding |-> 0, map_length |-> 0,
          mapped_addr |-> NULL, map_id |-> 0]
NoResult == [kind |-> "none", view |-> 0, msg |-> ""]
Threw(m)    == [kind |-> "error", view |-> 0, msg |-> m]
Returned(v) == [kind |-> "view", view |-> v, msg |-> ""]

InitReader ==
  /\ platform \in Platforms
  /\ granularity \in Granularities
  /\ fileSize \in 0..MaxFile
  /\ pc = [t \in Threads |-> "idle"]
  /\ args = [t \in Threads |-> [path |-> "data", offset |-> 0, length |-> 0]]
  /\ loc = [t \in Threads |-> NoLoc]
  /\ result = [t \in Threads |-> NoResult]
  /\ oslog = [t \in Threads |-> <<>>]
  /\ fds = {}
  /\ pages = [p \in 1..MaxPages |-> 0]
  /\ maps = <<>>
  /\ heap = {}
  /\ views = <<>>
  /\ ncalls = 0
  /\ fault = [t \in Threads |-> FALSE]


\* --------------------------------------------------------- the OS side
\* open(): the lowest descriptor not in use
LowestFreeFd == Min({n \in 3..(3 + Cardinality(fds)) : n \notin fds})

\* malloc(): a block address not in use
FreshPtr == Min({n \in 1..(1 + Cardinality(heap)) : \A b \in heap : b.ptr # n})

NPages(n) == CeilDiv(n, granularity)
PageAddr(p) == p * granularity

\* first pages of the free runs of n pages the kernel may pick for a new mapping
FreeBases(n) ==
  {p \in 1..MaxPages : p + n - 1 <= MaxPages /\ \A q \in p..(p + n - 1) : pages[q] = 0}

\* mmap(NULL, len, PROT_READ, MAP_PRIVATE, fd, off): what the kernel checks.
\* A range past end-of-file is not an error for mmap.
MmapAccepts(len, off) == len > 0 /\ off >= 0 /\ off % granularity = 0

\* CreateFileMapping(file, ..., 0, 0): the mapping object has the file's size,
\* and an empty file cannot be mapped.
CreateFileMappingAccepts == fileSize > 0

\* MapViewOfFile(mapping, FILE_MAP_READ, off, len): the view must lie inside the
\* mapping object; len = 0 asks for everything from off to its end.
MapViewAccepts(len, off) ==
  /\ off >= 0
  /\ off % granularity = 0
  /\ IF len = 0 THEN off < fileSize ELSE off + len <= fileSize

\* how many bytes the map call maps
MappedBytes(len, off) == IF platform = "win32" /\ len = 0 THEN fileSize - off ELSE len

\* the pages munmap(addr, len) removes
MunmapPages(addr, len) ==
  IF addr < 0 \/ addr % granularity # 0 \/ len <= 0
  THEN {}
  ELSE {p \in 1..MaxPages : addr \div granularity <= p /\ p <= (addr + len - 1) \div granularity}

\* the pages UnmapViewOfFile(addr) removes: the view based exactly at addr
UnmapViewPages(addr) ==
  {p \in 1..MaxPages : pages[p] # 0 /\ maps[pages[p]].addr = addr}

\* ------------------------------------------------ FastReadFile, step 1
AlignedOffset(offset) ==
  ToSigned(((ToUnsigned(offset) \div granularity) * granularity) % Modulus)
Padding(offset) == ToUnsigned(offset - AlignedOffset(offset))
\* (a variant that maps only the requested length, for C10)
MapLength_NoPadding(offset, length) == ToUnsigned(length)
MapLength(offset, length) == ToUnsigned(length + Padding(offset))

\* (a variant without the short-circuit, for C6)
AfterOpen_NoShortCircuit(length) == "map"

\* Line 137: the zero-length short-circuit
AfterOpen(length) == IF length = 0 THEN "zero" ELSE "map"

\* (a variant that records the caller-visible base and length, for C9)
MmapInfo_ViewRange(ptr, mapped_addr, padding, map_length, length) ==
  [ptr |-> ptr, kind |-> "MmapInfo", mapped_addr |-> mapped_addr + padding,
   mapped_len |-> ToUnsigned(length)]

\* Lines 193-195: what the bookkeeping record holds
MmapInfo(ptr, mapped_addr, padding, map_length, length) ==
  [ptr |-> ptr, kind |-> "MmapInfo", mapped_addr |-> mapped_addr, mapped_len |-> map_length]

\* (a variant that hands out the mapping's base, for C2)
ViewData_MappingBase(mapped_addr, padding) == mapped_addr

\* Line 197: where the caller's view starts
ViewData(mapped_addr, padding) == mapped_addr + padding

\* Line 199: the length of the caller's view
ViewLength(length, map_length) == ToUnsigned(length)

\* Lines 110-135: argument extraction, open, free(path).
\* napi = "ok", or which NAPI_CALL throws: one before malloc(path) (113, 117)
\* or one after it (120, 123, 126), which returns without free(path).
\* malloc itself is taken to succeed.
FastReadFile_Open(t, path, offset, length, napi, openOk) ==
  /\ pc[t] = "idle"
  /\ ncalls < MaxCalls
  /\ ncalls' = ncalls + 1
  /\ args' = [args EXCEPT ![t] = [path |-> path, offset |-> offset, length |-> length]]
  /\ fault' = [fault EXCEPT ![t] = napi # "ok" \/ (path = "data" /\ ~openOk)]
  /\ UNCHANGED <<envVars, pages, maps, views>>
  /\ CASE napi = "throw_before_malloc" ->
            /\ result' = [result EXCEPT ![t] = Threw("napi")]
            /\ oslog' = [oslog EXCEPT ![t] = <<>>]
            /\ loc' = [loc EXCEPT ![t] = NoLoc]
            /\ UNCHANGED <<pc, fds, heap>>
       [] napi = "throw_after_malloc" ->
            /\ result' = [result EXCEPT ![t] = Threw("napi")]
            /\ oslog' = [oslog EXCEPT ![t] = <<>>]
            /\ loc' = [loc EXCEPT ![t] = NoLoc]
            /\ heap' = heap \cup {[ptr |-> FreshPtr, kind |-> "path",
                                   mapped_addr |-> 0, mapped_len |-> 0]}
            /\ UNCHANGED <<pc, fds>>
       [] OTHER ->
            /\ oslog' = [oslog EXCEPT ![t] = <<"open">>]
            /\ UNCHANGED heap
            /\ IF path = "data" /\ openOk
               THEN /\ fds' = fds \cup {LowestFreeFd}
                    /\ loc' = [loc EXCEPT ![t] = [NoLoc EXCEPT !.fd = LowestFreeFd]]
                    /\ result' = [result EXCEPT ![t] = NoResult]
                    /\ pc' = [pc EXCEPT ![t] = AfterOpen(length)]
               ELSE /\ result' = [result EXCEPT ![t] = Threw("Failed to open file")]
                    /\ loc' = [loc EXCEPT ![t] = NoLoc]
                    /\ UNCHANGED <<pc, fds>>

\* ------------------------------------------------- the host's views
NewView(data, length, cb, hint, m) ==
  [data |-> data, length |-> length, finalize_cb |-> cb, hint |-> hint,
   map |-> m, state |-> "live", unmap_call |-> <<>>]

\* Lines 137-143: length == 0.  close(fd), then napi_create_buffer(env, 0, ...),
\* which may throw.
FastReadFile_ZeroLength(t, napiOk) ==
  /\ pc[t] = "zero"
  /\ fds' = fds \ {loc[t].fd}
  /\ oslog' = [oslog EXCEPT ![t] = Append(@, "close")]
  /\ pc' = [pc EXCEPT ![t] = "idle"]
  /\ IF napiOk
     THEN /\ views' = Append(views, NewView(NULL, 0, FALSE, NULL, 0))
          /\ result' = [result EXCEPT ![t] = Returned(Len(views) + 1)]
     ELSE /\ result' = [result EXCEPT ![t] = Threw("napi")]
          /\ UNCHANGED views
  /\ fault' = [fault EXCEPT ![t] = ~napiOk]
  /\ UNCHANGED <<envVars, args, loc, pages, maps, heap, ncalls>>

\* What the map call hands back: base = 0 is its failure (always possible: the
\* address space may be exhausted), otherwise the first page of a free run.
MapOutcomes(len, off) ==
  {0} \cup
  (IF (IF platform = "win32" THEN MapViewAccepts(len, off) ELSE MmapAccepts(len, off))
   THEN FreeBases(NPages(MappedBytes(len, off)))
   ELSE {})

MapFailure == IF platform = "win32" THEN NULL ELSE MAP_FAILED

\* the state after a map call that returned the run starting at page base
DoMap(t, base, len, off, calls) ==
  /\ oslog' = [oslog EXCEPT ![t] = @ \o calls]
  /\ pc' = [pc EXCEPT ![t] = "close"]
  /\ IF base = 0
     THEN /\ loc' = [loc EXCEPT ![t].aligned_offset = off,
                                ![t].padding = Padding(args[t].offset),
                                ![t].map_length = len,
                                ![t].mapped_addr = MapFailure]
          /\ UNCHANGED <<pages, maps>>
     ELSE LET n  == NPages(MappedBytes(len, off))
              id == Len(maps) + 1
          IN /\ pages' = [p \in 1..MaxPages |->
                            IF base <= p /\ p < base + n THEN id ELSE pages[p]]
             /\ maps' = Append(maps, [addr |-> PageAddr(base), len |-> len,
                                      off |-> off, npages |-> n,
                                      view |-> 0, unmaps |-> 0, by |-> 0])
             /\ loc' = [loc EXCEPT ![t].aligned_offset = off,
                                   ![t].padding = Padding(args[t].offset),
                                   ![t].map_length = len,
                                   ![t].mapped_addr = PageAddr(base),
                                   ![t].map_id = id]

\* Lines 145-180: granularity query, alignment arithmetic, the map call.
\* win = "no_handle": _get_osfhandle fails (153-158); "no_mapping":
\* CreateFileMapping fails (162-169); both close fd and throw.
FastReadFile_Map(t, base, win) ==
  /\ pc[t] = "map"
  /\ LET off == AlignedOffset(args[t].offset)
         len == MapLength(args[t].offset, args[t].length)
     IN IF platform = "posix"
        THEN /\ win = "view"
             /\ base \in MapOutcomes(len, off)
             /\ DoMap(t, base, len, off, <<"granularity", "mmap">>)
             /\ fault' = [fault EXCEPT ![t] = base = 0 /\ MmapAccepts(len, off)]
             /\ UNCHANGED <<fds, result>>
        ELSE CASE win = "no_handle" ->
                    /\ base = 0
                    /\ oslog' = [oslog EXCEPT ![t] =
                                   @ \o <<"granularity", "_get_osfhandle", "close">>]
                    /\ fds' = fds \ {loc[t].fd}
                    /\ result' = [result EXCEPT ![t] = Threw("Failed to get file handle")]
                    /\ fault' = [fault EXCEPT ![t] = TRUE]
                    /\ pc' = [pc EXCEPT ![t] = "idle"]
                    /\ UNCHANGED <<loc, pages, maps>>
               [] win = "no_mapping" ->
                    /\ base = 0
                    /\ oslog' = [oslog EXCEPT ![t] =
                                   @ \o <<"granularity", "_get_osfhandle",
                                          "CreateFileMapping", "close">>]
                    /\ fds' = fds \ {loc[t].fd}
                    /\ result' = [result EXCEPT ![t] = Threw("Failed to create file mapping")]
                    /\ fault' = [fault EXCEPT ![t] = CreateFileMappingAccepts]
                    /\ pc' = [pc EXCEPT ![t] = "idle"]
                    /\ UNCHANGED <<loc, pages, maps>>
               [] OTHER ->
                    /\ CreateFileMappingAccepts
                    /\ base \in MapOutcomes(len, off)
                    /\ DoMap(t, base, len, off,
                             <<"granularity", "_get_osfhandle", "CreateFileMapping",
                               "MapViewOfFile", "CloseHandle">>)
                    /\ fault' = [fault EXCEPT ![t] = base = 0 /\ MapViewAccepts(len, off)]
                    /\ UNCHANGED <<fds, result>>
  /\ UNCHANGED <<envVars, args, heap, views, ncalls>>

\* (a variant that checks the map call's result before it closes, for C7)
FastReadFile_Close_AfterCheck(t) ==
  /\ pc[t] = "close"
  /\ IF loc[t].mapped_addr = MapFailure
     THEN /\ result' = [result EXCEPT ![t] = Threw("Failed to map file")]
          /\ pc' = [pc EXCEPT ![t] = "idle"]
          /\ UNCHANGED <<fds, oslog>>
     ELSE /\ fds' = fds \ {loc[t].fd}
          /\ oslog' = [oslog EXCEPT ![t] = Append(@, "close")]
          /\ pc' = [pc EXCEPT ![t] = "wrap"]
          /\ UNCHANGED result
  /\ UNCHANGED <<envVars, args, loc, pages, maps, heap, views, ncalls, fault>>

\* Lines 182-191: close(fd), then the check of the map call's result.
FastReadFile_Close(t) ==
  /\ pc[t] = "close"
  /\ fds' = fds \ {loc[t].fd}
  /\ oslog' = [oslog EXCEPT ![t] = Append(@, "close")]
  /\ IF loc[t].mapped_addr = MapFailure
     THEN /\ result' = [result EXCEPT ![t] = Threw("Failed to map file")]
          /\ pc' = [pc EXCEPT ![t] = "idle"]
     ELSE /\ pc' = [pc EXCEPT ![t] = "wrap"]
          /\ UNCHANGED result
  /\ UNCHANGED <<envVars, args, loc, pages, maps, heap, views, ncalls, fault>>

\* Lines 193-201: malloc(MmapInfo), data = mapped_addr + padding,
\* napi_create_external_buffer(env, (size_t)length, data, UnmapCallback, map_info),
\* which may throw; NAPI_CALL then returns NULL as it stands.
FastReadFile_Wrap(t, napiOk) ==
  /\ pc[t] = "wrap"
  /\ LET map_info == MmapInfo(FreshPtr, loc[t].mapped_addr, loc[t].padding,
                              loc[t].map_length, args[t].length)
         data == ViewData(loc[t].mapped_addr, loc[t].padding)
     IN /\ heap' = heap \cup {map_info}
        /\ IF napiOk
           THEN /\ views' = Append(views, NewView(data, ViewLength(args[t].length, loc[t].map_length),
                                                  TRUE, map_info.ptr, loc[t].map_id))
                /\ maps' = [maps EXCEPT ![loc[t].map_id].view = Len(views) + 1]
                /\ result' = [result EXCEPT ![t] = Returned(Len(views) + 1)]
           ELSE /\ result' = [result EXCEPT ![t] = Threw("napi")]
                /\ UNCHANGED <<views, maps>>
  /\ pc' = [pc EXCEPT ![t] = "idle"]
  /\ fault' = [fault EXCEPT ![t] = ~napiOk]
  /\ UNCHANGED <<envVars, args, loc, oslog, fds, pages, ncalls>>

\* (a variant that frees the record and leaves the mapping, for C1)
UnmapCallback_FreeOnly(v) ==
  /\ views' = [views EXCEPT ![v].state = "finalized"]
  /\ heap' = {b \in heap : b.ptr # views[v].hint}
  /\ UNCHANGED <<pages, maps>>

\* ------------------------------------------------------ UnmapCallback
\* Lines 79-89, run by the host for view v: munmap(info->mapped_addr,
\* info->mapped_len) or UnmapViewOfFile(info->mapped_addr), then free(info).
UnmapCallback(v) ==
  LET hint == views[v].hint
      info == CHOOSE b \in heap : b.ptr = hint
      call == IF platform = "win32" THEN <<info.mapped_addr>>
              ELSE <<info.mapped_addr, info.mapped_len>>
      gone == IF platform = "win32" THEN UnmapViewPages(info.mapped_addr)
              ELSE MunmapPages(info.mapped_addr, info.mapped_len)
      hit  == {pages[p] : p \in gone} \ {0}
  IN IF hint = NULL
     THEN /\ views' = [views EXCEPT ![v].state = "finalized"]
          /\ UNCHANGED <<pages, maps, heap>>
     ELSE /\ pages' = [p \in 1..MaxPages |-> IF p \in gone THEN 0 ELSE pages[p]]
          /\ maps' = [m \in 1..Len(maps) |->
                        IF m \in hit
                        THEN [maps[m] EXCEPT !.unmaps = @ + 1, !.by = v]
                        ELSE maps[m]]
          /\ heap' = heap \ {info}
          /\ views' = [views EXCEPT ![v].state = "finalized", ![v].unmap_call = call]

\* ------------------------------------------------------- the host runtime
\* The caller drops its last reference to view v.
Discard(v) ==
  /\ v \in 1..Len(views)
  /\ views[v].state = "live"
  /\ views' = [views EXCEPT ![v].state = "unreachable"]
  /\ UNCHANGED <<envVars, pc, args, loc, result, oslog, fds, pages, maps, heap,
                 ncalls, fault>>

\* The host reclaims an unreachable view and runs its finalizer, once.
Finalize(v) ==
  /\ v \in 1..Len(views)
  /\ views[v].state = "unreachable"
  /\ IF views[v].finalize_cb
     THEN UnmapCallback(v)
     ELSE /\ views' = [views EXCEPT ![v].state = "finalized"]
          /\ UNCHANGED <<pages, maps, heap>>
  /\ UNCHANGED <<envVars, pc, args, loc, result, oslog, fds, ncalls, fault>>

\* ------------------------------------------------------- SimdChecksum
\* A uint64_t is its eight bytes, least significant first, so that the
\* arithmetic is exact: U[1] + 256 * U[2] + ... + 256^7 * U[8].
ChunkBytes == 32
LaneBytes  == 8
Lanes      == 4
Multiplier == 31
Byte       == 256

Zero64 == <<0, 0, 0, 0, 0, 0, 0, 0>>

\* a + b, wrapping at 2^64: the bytes from the k-th on, given the carry into it
RECURSIVE AddFrom(_, _, _, _)
AddFrom(a, b, k, carry) ==
  IF k > LaneBytes THEN <<>>
  ELSE LET sum == a[k] + b[k] + carry
       IN <<sum % Byte>> \o AddFrom(a, b, k + 1, sum \div Byte)
Add64(a, b) == AddFrom(a, b, 1, 0)

\* h * m + c, wrapping at 2^64 (m and c below 256)
RECURSIVE MulAddFrom(_, _, _, _)
MulAddFrom(h, m, k, carry) ==
  IF k > LaneBytes THEN <<>>
  ELSE LET v == h[k] * m + carry
       IN <<v % Byte>> \o MulAddFrom(h, m, k + 1, v \div Byte)
MulAdd64(h, m, c) == MulAddFrom(h, m, 1, c)

RECURSIVE XorBits(_, _)
XorBits(x, y) ==
  IF x = 0 THEN y
  ELSE IF y = 0 THEN x
  ELSE ((x + y) % 2) + 2 * XorBits(x \div 2, y \div 2)
RECURSIVE XorFrom(_, _, _)
XorFrom(a, b, k) ==
  IF k > LaneBytes THEN <<>> ELSE <<XorBits(a[k], b[k])>> \o XorFrom(a, b, k + 1)
Xor64(a, b) == XorFrom(a, b, 1)

\* _mm256_loadu_si256(bytes + at): lane l of the chunk that starts at the
\* 0-based index at (x86_64 is little-endian)
LoadLane(b, at, l) == SubSeq(b, at + LaneBytes * (l - 1) + 1, at + LaneBytes * l)

\* (a variant that needs more than one chunk, for C8)
UseVector_Strict(vec, length) == vec /\ length > ChunkBytes

\* line 228: whether the vector phase runs
UseVector(vec, length) == vec /\ length >= ChunkBytes

\* line 233: _mm256_add_epi64(acc, chunk)
AddEpi64(a, b, at) ==
  <<Add64(a[1], LoadLane(b, at, 1)), Add64(a[2], LoadLane(b, at, 2)),
    Add64(a[3], LoadLane(b, at, 3)), Add64(a[4], LoadLane(b, at, 4))>>

\* line 243: acc_parts[0] ^ acc_parts[1] ^ acc_parts[2] ^ acc_parts[3]
ExtractHash(a) == Xor64(Xor64(Xor64(a[1], a[2]), a[3]), a[4])

\* lines 248 and 253: hash * 31 + bytes[i]
FoldByte(h, byte) == MulAdd64(h, Multiplier, byte)

\* line 259: snprintf(hex, sizeof(hex), "%016llx", hash)
HexDigits == <<"0", "1", "2", "3", "4", "5", "6", "7",
               "8", "9", "a", "b", "c", "d", "e", "f">>
FormatHex(h) ==
  [k \in 1..(2 * LaneBytes) |->
     LET byte == h[LaneBytes - ((k - 1) \div 2)]
     IN HexDigits[(IF k % 2 = 1 THEN byte \div 16 ELSE byte % 16) + 1]]

ZeroAcc == <<Zero64, Zero64, Zero64, Zero64>>
NoHex == [kind |-> "none", text |-> <<>>]

ChecksumIdle ==
  /\ vector = FALSE
  /\ bytes = <<>>
  /\ fp = "idle"
  /\ i = 0
  /\ acc = ZeroAcc
  /\ hash = Zero64
  /\ hex = NoHex

\* the buffers tried: length n, value a at every p-th index and b elsewhere
ByteVals == {0, 1, 255}
Periods  == {1, 3, 7}
Buffer(n, a, b, p) == [j \in 1..n |-> IF (j - 1) % p = 0 THEN a ELSE b]

InitChecksum ==
  /\ vector \in BOOLEAN
  /\ \E n \in 0..MaxBuf, a \in ByteVals, b \in ByteVals, p \in Periods :
       bytes = Buffer(n, a, b, p)
  /\ fp = "start"
  /\ i = 0
  /\ acc = ZeroAcc
  /\ hash = Zero64
  /\ hex = NoHex

\* Lines 211-229: napi_get_cb_info / napi_get_buffer_info (which may throw),
\* hash = 0, i = 0, and the choice of the vector phase.
SimdChecksum_Begin(napiOk) ==
  /\ fp = "start"
  /\ IF napiOk
     THEN /\ fp' = IF UseVector(vector, Len(bytes)) THEN "vector" ELSE "scalar"
          /\ UNCHANGED hex
     ELSE /\ fp' = "done"
          /\ hex' = [kind |-> "error", text |-> <<>>]
  /\ hash' = Zero64
  /\ i' = 0
  /\ acc' = ZeroAcc
  /\ UNCHANGED <<rdVars, vector, bytes>>

\* Lines 231-234: one full chunk
SimdChecksum_Chunk ==
  /\ fp = "vector"
  /\ i + ChunkBytes <= Len(bytes)
  /\ acc' = AddEpi64(acc, bytes, i)
  /\ i' = i + ChunkBytes
  /\ UNCHANGED <<rdVars, vector, bytes, fp, hash, hex>>

\* Lines 236-244: the loop is over, the lanes are folded into the hash
SimdChecksum_Extract ==
  /\ fp = "vector"
  /\ ~(i + ChunkBytes <= Len(bytes))
  /\ hash' = ExtractHash(acc)
  /\ fp' = "scalar"
  /\ UNCHANGED <<rdVars, vector, bytes, i, acc, hex>>

\* Lines 247-249 and 252-254: one remaining byte
SimdChecksum_Byte ==
  /\ fp = "scalar"
  /\ i < Len(bytes)
  /\ hash' = FoldByte(hash, bytes[i + 1])
  /\ i' = i + 1
  /\ UNCHANGED <<rdVars, vector, bytes, fp, acc, hex>>

\* Lines 257-263: the hex string, and napi_create_string_utf8 (which may throw)
SimdChecksum_Return(napiOk) ==
  /\ fp = "scalar"
  /\ ~(i < Len(bytes))
  /\ hex' = IF napiOk THEN [kind |-> "string", text |-> FormatHex(hash)]
            ELSE [kind |-> "error", text |-> <<>>]
  /\ fp' = "done"
  /\ UNCHANGED <<rdVars, vector, bytes, i, acc, hash>>

\* ------------------------------------------------------ specifications
NapiFaults == {"ok", "throw_before_malloc", "throw_after_malloc"}
WinFaults  == {"view", "no_handle", "no_mapping"}

\* the steps of a call once it has opened the file
Steps(t) ==
  \/ \E napiOk \in BOOLEAN : FastReadFile_ZeroLength(t, napiOk)
  \/ \E base \in 0..MaxPages, win \in WinFaults : FastReadFile_Map(t, base, win)
  \/ FastReadFile_Close(t)
  \/ \E napiOk \in BOOLEAN : FastReadFile_Wrap(t, napiOk)

Release ==
  \/ \E v \in 1..Len(views) : Discard(v)
  \/ \E v \in 1..Len(views) : Finalize(v)

\* Spec: several callers at once, MaxCalls calls in all, on a file of MaxFile
\* bytes with pages of two bytes; the ranges are empty, aligned (one page) or
\* unaligned (two pages), and open may fail.
ConcOffsets == {0, 3}
ConcLengths == {0, 2}

Init == InitReader /\ ChecksumIdle

InitConc == Init /\ fileSize = MaxFile /\ granularity = 2

Begin(t) ==
  \E path \in {"data"}, offset \in ConcOffsets, length \in ConcLengths,
     napi \in NapiFaults, openOk \in BOOLEAN :
    FastReadFile_Open(t, path, offset, length, napi, openOk)

Next == (\E t \in Threads : Begin(t) \/ Steps(t)) \/ Release

Spec == InitConc /\ [][Next]_vars

\* SpecArgs: one call with any arguments on any file, and the release of the
\* view it returned.
ArgRange == (-2)..MaxArg

BeginArgs ==
  /\ ncalls = 0
  /\ \E path \in Paths, offset \in ArgRange, length \in ArgRange,
        napi \in NapiFaults, openOk \in BOOLEAN :
       FastReadFile_Open(1, path, offset, length, napi, openOk)

NextArgs == BeginArgs \/ Steps(1) \/ Release

SpecArgs == Init /\ [][NextArgs]_vars

\* SpecChecksum: one SimdChecksum call on each buffer.
InitFP ==
  /\ InitReader
  /\ platform = "posix" /\ granularity = 1 /\ fileSize = 0
  /\ InitChecksum

NextFP ==
  \/ \E napiOk \in BOOLEAN : SimdChecksum_Begin(napiOk)
  \/ SimdChecksum_Chunk
  \/ SimdChecksum_Extract
  \/ SimdChecksum_Byte
  \/ \E napiOk \in BOOLEAN : SimdChecksum_Return(napiOk)

SpecChecksum == InitFP /\ [][NextFP]_vars

\* ======================================================= the claims
Completed(t) == pc[t] = "idle" /\ result[t].kind # "none"
Opened(t) == loc[t].fd # NoLoc.fd
Count(log, x) == Cardinality({k \in DOMAIN log : log[k] = x})
MapCalled(t) == \E k \in DOMAIN oslog[t] : oslog[t][k] \in {"mmap", "MapViewOfFile"}
ValidRange(t) ==
  /\ args[t].offset >= 0
  /\ args[t].length > 0
  /\ args[t].offset + args[t].length <= fileSize
PastEof(t) ==
  /\ args[t].offset >= 0
  /\ args[t].length > 0
  /\ args[t].offset + args[t].length > fileSize
InfoBlocks == {b \in heap : b.kind = "MmapInfo"}

\* every page of mapping m is still mapped, and to m
Intact(m) ==
  \A p \in 1..MaxPages :
    (maps[m].addr <= PageAddr(p) /\ PageAddr(p) < maps[m].addr + maps[m].npages * granularity)
      => pages[p] = m
\* no page of mapping m is mapped any more
Gone(m) == \A p \in 1..MaxPages : pages[p] # m

\* What the caller reads at index k of view v: the byte, or a fault (an address
\* that is not mapped, or a page that lies wholly past end-of-file).  The rest
\* of the file's last page reads as zero.
ReadView(v, k) ==
  LET a == views[v].data + k
      p == a \div granularity
  IN IF p \notin 1..MaxPages
     THEN [ok |-> FALSE, byte |-> 0]
     ELSE IF pages[p] = 0
     THEN [ok |-> FALSE, byte |-> 0]
     ELSE LET mp  == maps[pages[p]]
              pos == mp.off + (a - mp.addr)
          IN IF pos < fileSize
             THEN [ok |-> TRUE, byte |-> FileByte(pos)]
             ELSE IF pos < CeilDiv(fileSize, granularity) * granularity
             THEN [ok |-> TRUE, byte |-> 0]
             ELSE [ok |-> FALSE, byte |-> 0]

\* C1: in every interleaving of calls and releases by several callers, a
\* mapping that a returned view owns is unmapped exactly once, by the release
\* of that view and of no other, after the view became unreachable; until then
\* every one of its pages stays mapped, whatever else is released.
C1_UnmappedOnceByOwner ==
  \A m \in 1..Len(maps) :
    /\ maps[m].unmaps <= 1
    /\ maps[m].unmaps = 1 =>
         /\ maps[m].view # 0
         /\ maps[m].by = maps[m].view
         /\ views[maps[m].view].state = "finalized"
         /\ Gone(m)
    /\ maps[m].unmaps = 0 => Intact(m)
    /\ (maps[m].view # 0 /\ views[maps[m].view].state = "finalized") => maps[m].unmaps = 1
    /\ maps[m].view # 0 => views[maps[m].view].map = m

\* C1's case: a view was released and its mapping unmapped while an older view
\* of another call is still live, its mapping intact.
C1_Witness ==
  \E v \in 1..Len(views), w \in 1..Len(views) :
    /\ w < v
    /\ views[v].finalize_cb /\ views[w].finalize_cb
    /\ views[v].state = "finalized" /\ maps[views[v].map].unmaps = 1
    /\ views[w].state = "live" /\ Intact(views[w].map)

\* C3: once every call has returned and every returned view is released, no
\* mapping, no MmapInfo record and no descriptor remains.
C3_NothingLeftBehind ==
  ( /\ \A t \in Threads : pc[t] = "idle"
    /\ \A v \in 1..Len(views) : views[v].state = "finalized" )
  => ( /\ \A p \in 1..MaxPages : pages[p] = 0
       /\ InfoBlocks = {}
       /\ fds = {} )

\* C4: a call with a negative offset or length makes no OS call, returns no
\* view and fails with InvalidArgument.
C4_NegativeRejectedBeforeIO ==
  \A t \in Threads :
    (args[t].offset < 0 \/ args[t].length < 0) =>
      /\ oslog[t] = <<>>
      /\ result[t].kind # "view"
      /\ Completed(t) => result[t] = Threw("InvalidArgument")

\* C5: when offset + length lies past end-of-file the map call fails, and the
\* call ends in "Failed to map file" without a view.
C5_PastEofFails ==
  \A t \in Threads :
    PastEof(t) =>
      /\ result[t].kind # "view"
      /\ MapCalled(t) => loc[t].mapped_addr = MapFailure
      /\ pc[t] # "wrap"

\* C6: a call with length 0 that opened the file never reaches the granularity
\* query or the map call; it closes the descriptor and then returns a view of
\* length 0 with no release callback and no bookkeeping record (or the host's
\* error, when the host cannot make the buffer).
C6_ZeroLengthNeverMaps ==
  \A t \in Threads :
    (args[t].length = 0 /\ args[t].offset >= 0 /\ Opened(t)) =>
      /\ pc[t] \in {"zero", "idle"}
      /\ pc[t] = "zero" => oslog[t] = <<"open">>
      /\ Len(maps) = 0
      /\ InfoBlocks = {}
      /\ Completed(t) =>
           /\ oslog[t] = <<"open", "close">>
           /\ fds = {}
           /\ result[t].kind = "error" => result[t] = Threw("napi") /\ fault[t]
           /\ ~fault[t] =>
                /\ result[t].kind = "view"
                /\ views[result[t].view] =
                     [NewView(NULL, 0, FALSE, NULL, 0) EXCEPT
                        !.state = views[result[t].view].state]

\* C6's case: a zero-length call at a non-zero offset has returned its view.
C6_Witness ==
  \E t \in Threads :
    /\ Completed(t) /\ result[t].kind = "view"
    /\ args[t].length = 0 /\ args[t].offset > 0

\* C7: a call that opened the file closes the descriptor exactly once, before
\* it returns or throws, and after the map call where there is one; no
\* descriptor outlives the step that closes it, none is closed twice.
C7_ClosedExactlyOnce ==
  /\ \A t \in Threads :
       /\ Count(oslog[t], "close") <= 1
       /\ (Opened(t) /\ pc[t] \in {"wrap", "idle"}) => Count(oslog[t], "close") = 1
       /\ pc[t] \in {"zero", "map", "close"} =>
            /\ Count(oslog[t], "close") = 0
            /\ loc[t].fd \in fds
       /\ \A k \in DOMAIN oslog[t] :
            oslog[t][k] \in {"mmap", "MapViewOfFile", "CreateFileMapping"} =>
              /\ \A j \in DOMAIN oslog[t] : oslog[t][j] = "close" => j > k
              /\ pc[t] # "close" => oslog[t][Len(oslog[t])] = "close"
  /\ fds = {loc[t].fd : t \in {u \in Threads : pc[u] \in {"zero", "map", "close"}}}
  /\ \A t \in Threads, u \in Threads :
       (t # u /\ pc[t] \in {"zero", "map", "close"} /\ pc[u] \in {"zero", "map", "close"})
         => loc[t].fd # loc[u].fd

\* C7's case: one call ended in a mapping failure and another returned a view,
\* both with their descriptor closed.
C7_Witness ==
  \E t \in Threads, u \in Threads :
    /\ Completed(t) /\ result[t] = Threw("Failed to map file")
    /\ Completed(u) /\ result[u].kind = "view" /\ args[u].length > 0
    /\ fds = {}

\* C2: for a range inside the file, the call returns a view (unless an OS or
\* host call failed for a reason outside the call); the view has the requested
\* length and its k-th byte is the file's byte at offset + k.
C2_ViewHoldsFileBytes ==
  \A t \in Threads :
    ValidRange(t) =>
      /\ (Completed(t) /\ args[t].path = "data" /\ ~fault[t]) => result[t].kind = "view"
      /\ result[t].kind = "view" =>
           LET v == result[t].view
           IN /\ views[v].length = args[t].length
              /\ views[v].state = "live" =>
                   \A k \in 0..(args[t].length - 1) :
                     ReadView(v, k) = [ok |-> TRUE, byte |-> FileByte(args[t].offset + k)]

\* C2's case: a live view of several bytes that starts inside a page, not at
\* its start, and runs into the next page.
C2_Witness ==
  \E t \in Threads :
    /\ result[t].kind = "view" /\ ValidRange(t)
    /\ views[result[t].view].state = "live"
    /\ args[t].offset % granularity # 0
    /\ args[t].offset > granularity
    /\ maps[views[result[t].view].map].npages > 1

\* C9: the view starts padding bytes into the mapping and has the requested
\* length, while the bookkeeping record holds the address and length of the
\* map call; the unmap call at release is given exactly those.
C9_UnmapsWhatWasMapped ==
  \A t \in Threads :
    (result[t].kind = "view" /\ args[t].length > 0) =>
      LET v  == result[t].view
          mp == maps[views[v].map]
      IN /\ views[v].data = mp.addr + (args[t].offset - mp.off)
         /\ views[v].length = args[t].length
         /\ views[v].state # "finalized" =>
              \E b \in InfoBlocks :
                b.ptr = views[v].hint /\ b.mapped_addr = mp.addr /\ b.mapped_len = mp.len
         /\ views[v].state = "finalized" =>
              views[v].unmap_call =
                IF platform = "win32" THEN <<mp.addr>> ELSE <<mp.addr, mp.len>>

\* C9's case: a released view whose base and length differ from the mapping's.
C9_Witness ==
  \E t \in Threads :
    /\ result[t].kind = "view" /\ args[t].length > 0
    /\ platform = "posix"
    /\ views[result[t].view].state = "finalized"
    /\ views[result[t].view].data # maps[views[result[t].view].map].addr
    /\ views[result[t].view].length # maps[views[result[t].view].map].len

\* C10: what is passed to the map call: aligned_offset is offset rounded down
\* to a multiple of the granularity, padding is the rest, below the
\* granularity, and map_length is length + padding.
C10_AlignmentArithmetic ==
  \A t \in Threads :
    (MapCalled(t) /\ args[t].offset >= 0 /\ args[t].length > 0) =>
      /\ loc[t].aligned_offset = (args[t].offset \div granularity) * granularity
      /\ loc[t].aligned_offset % granularity = 0
      /\ loc[t].aligned_offset <= args[t].offset
      /\ loc[t].padding = args[t].offset - loc[t].aligned_offset
      /\ 0 <= loc[t].padding /\ loc[t].padding < granularity
      /\ loc[t].map_length = args[t].length + loc[t].padding
      /\ loc[t].map_id # 0 =>
           /\ maps[loc[t].map_id].off = loc[t].aligned_offset
           /\ maps[loc[t].map_id].len = loc[t].map_length

\* C10's case: a map call for an offset inside a page that is not the first.
C10_Witness ==
  \E t \in Threads :
    /\ MapCalled(t) /\ args[t].length > 0
    /\ loc[t].padding > 0 /\ loc[t].aligned_offset > 0
    /\ loc[t].map_id # 0

\* ---- C8: the fingerprint
\* the sum of lane l over the first n chunks
RECURSIVE LaneSum(_, _, _)
LaneSum(b, n, l) ==
  IF n = 0 THEN Zero64
  ELSE LET prev == LaneSum(b, n - 1, l)
       IN Add64(prev, LoadLane(b, (n - 1) * ChunkBytes, l))

\* h after folding in b[from + 1 .. to] with h * 31 + byte
RECURSIVE FoldRange(_, _, _, _)
FoldRange(h, b, from, to) ==
  IF to <= from THEN h
  ELSE LET prev == FoldRange(h, b, from, to - 1)
       IN MulAdd64(prev, Multiplier, b[to])

Reference(b, vec) ==
  IF vec /\ Len(b) >= ChunkBytes
  THEN LET n == Len(b) \div ChunkBytes
           x == Xor64(Xor64(LaneSum(b, n, 1), LaneSum(b, n, 2)),
                      Xor64(LaneSum(b, n, 3), LaneSum(b, n, 4)))
       IN FoldRange(x, b, n * ChunkBytes, Len(b))
  ELSE FoldRange(Zero64, b, 0, Len(b))

\* fingerprints computed outside the model with 64-bit unsigned arithmetic
KnownAnswers ==
  {
   [n |-> 1, a |-> 255, b |-> 0, p |-> 1, vec |-> TRUE,
    text |-> <<"0", "0", "0", "0", "0", "0", "0", "0", "0", "0", "0", "0", "0", "0", "f", "f">>],
   [n |-> 31, a |-> 255, b |-> 1, p |-> 3, vec |-> TRUE,
    text |-> <<"d", "1", "a", "8", "6", "3", "5", "1", "1", "2", "e", "7", "a", "6", "d", "f">>],
   [n |-> 32, a |-> 255, b |-> 1, p |-> 3, vec |-> TRUE,
    text |-> <<"f", "e", "0", "0", "f", "e", "f", "e", "0", "0", "f", "e", "f", "e", "0", "0">>],
   [n |-> 33, a |-> 255, b |-> 1, p |-> 3, vec |-> TRUE,
    text |-> <<"c", "2", "1", "e", "e", "0", "c", "2", "1", "e", "e", "0", "c", "2", "0", "1">>],
   [n |-> 65, a |-> 255, b |-> 1, p |-> 7, vec |-> TRUE,
    text |-> <<"1", "f", "5", "d", "5", "d", "5", "d", "5", "d", "5", "d", "3", "e", "0", "1">>],
   [n |-> 65, a |-> 255, b |-> 1, p |-> 7, vec |-> FALSE,
    text |-> <<"5", "7", "7", "a", "6", "d", "7", "9", "7", "6", "e", "2", "a", "4", "c", "1">>],
   [n |-> 64, a |-> 255, b |-> 255, p |-> 1, vec |-> TRUE,
    text |-> <<"0", "0", "0", "0", "0", "0", "0", "0", "0", "0", "0", "0", "0", "0", "0", "0">>],
   [n |-> 33, a |-> 1, b |-> 255, p |-> 3, vec |-> FALSE,
    text |-> <<"e", "1", "9", "d", "4", "7", "1", "0", "7", "8", "6", "4", "9", "5", "c", "1">>]
  }

\* C8: the hash returned is the reference's: lane-wise sums of the full chunks,
\* XOR-ed, then the remaining bytes folded with hash * 31 + byte (all bytes,
\* from zero, below 32 bytes or without vector support); it is rendered as 16
\* lowercase hex digits, 0000000000000000 for the empty buffer.
C8_MatchesReference ==
  (fp = "done" /\ hex.kind = "string") =>
    /\ hash = Reference(bytes, vector)
    /\ hex.text = FormatHex(Reference(bytes, vector))
    /\ Len(hex.text) = 2 * LaneBytes
    /\ \A k \in DOMAIN hex.text : \E d \in DOMAIN HexDigits : hex.text[k] = HexDigits[d]
    /\ Len(bytes) = 0 => hex.text = [k \in 1..(2 * LaneBytes) |-> "0"]
    /\ \A ka \in KnownAnswers :
         (vector = ka.vec /\ bytes = Buffer(ka.n, ka.a, ka.b, ka.p)) => hex.text = ka.text

\* C8's case: a buffer of two chunks and a remainder went through the vector
\* phase, a lane wrapped, and the hash is not zero.
C8_Witness ==
  /\ fp = "done" /\ hex.kind = "string"
  /\ vector /\ Len(bytes) > 2 * ChunkBytes
  /\ \A k \in 1..Len(bytes) : bytes[k] = 255
  /\ hash # Zero64

=============================================================================
